---- MODULE Spec2Model ----
(***************************************************************************)
(* State-machine model of the NAPALM driver for Nokia SR OS                *)
(* (napalm_sros/sros.py): open, the configuration transaction engine       *)
(* (load_merge_candidate, load_replace_candidate, commit_config,           *)
(* discard_config, rollback, compare_config), its NETCONF lock discipline, *)
(* the framing of shell output by _perform_cli_commands, and the XPath     *)
(* text extraction helper _find_txt.                                       *)
(*                                                                         *)
(* Python strings are modelled as sequences of one-character strings, so   *)
(* that strip, split, startswith and the substring test `in` are computed  *)
(* as the code computes them.                                              *)
(***************************************************************************)
EXTENDS Integers, Sequences, FiniteSets, TLC

(***************************************************************************)
(* Bounds of the model.                                                    *)
(***************************************************************************)
\* most structured loads between two commit_config / discard_config calls
MaxRun == 2
\* longest configuration payload, in characters
MaxPayload == 3
\* most children of the XML tree given to _find_txt
MaxKids == 2
\* most lines of device output before the final prompt
MaxOutLines == 2
\* most commands of a batch whose framing is followed read by read
MaxBatch == 2

(***************************************************************************)
(* Python str primitives.                                                  *)
(***************************************************************************)
\* the characters str.strip() removes that the payload alphabet contains
Whitespace == {" ", "\n"}

\* the alphabet configuration payloads are drawn from
Chars == {"<", " ", "\n", "c"}

SeqsUpTo(S, n) == UNION {[1..k -> S] : k \in 0..n}

Payloads(n) == SeqsUpTo(Chars, n)

\* s.startswith(p)
startswith(s, p) == Len(s) >= Len(p) /\ SubSeq(s, 1, Len(p)) = p

\* s.endswith(p)
endswith(s, p) == Len(s) >= Len(p) /\ SubSeq(s, Len(s) - Len(p) + 1, Len(s)) = p

\* p occurs in s at index i
MatchAt(s, p, i) == \A k \in 1..Len(p) : s[i + k - 1] = p[k]

\* p in s
contains(s, p) == \E i \in 1..(Len(s) - Len(p) + 1) : MatchAt(s, p, i)

\* s.lstrip()
RECURSIVE lstrip(_)
lstrip(s) == IF s # <<>> /\ Head(s) \in Whitespace THEN lstrip(Tail(s)) ELSE s

\* s.rstrip()
RECURSIVE rstrip(_)
rstrip(s) ==
    IF s # <<>> /\ s[Len(s)] \in Whitespace THEN rstrip(SubSeq(s, 1, Len(s) - 1)) ELSE s

\* s.strip()
strip(s) == rstrip(lstrip(s))

\* s.find(p, i): the least index >= i at which p occurs in s, 0 when there is none
RECURSIVE find(_, _, _)
find(s, p, i) ==
    IF i + Len(p) - 1 > Len(s) THEN 0
    ELSE IF MatchAt(s, p, i) THEN i
    ELSE find(s, p, i + 1)

\* s.split(sep) for a non-empty separator
RECURSIVE split(_, _)
split(s, sep) ==
    LET i == find(s, sep, 1)
    IN  IF i = 0 THEN <<s>>
        ELSE <<SubSeq(s, 1, i - 1)>> \o split(SubSeq(s, i + Len(sep), Len(s)), sep)

\* sep.join(parts)
RECURSIVE join(_, _)
join(parts, sep) ==
    IF parts = <<>> THEN <<>>
    ELSE IF Len(parts) = 1 THEN parts[1]
    ELSE parts[1] \o sep \o join(Tail(parts), sep)

(***************************************************************************)
(* String literals of the driver.                                          *)
(***************************************************************************)
NL == <<"\n">>
LT == <<"<">>
ColonSpace == <<":", " ">>
SpaceNlSpace == <<" ", "\n", " ">>
MinorColon == <<"M", "I", "N", "O", "R", ":", " ">>
Minor == <<"M", "I", "N", "O", "R">>
BenignMarker ==
    <<"M", "I", "N", "O", "R", ":", " ", "C", "L", "I", " ", "#", "2", "0", "6", "9">>
HashSpace == <<"#", " ">>

CmdEditConfigExclusive ==
    <<"e", "d", "i", "t", "-", "c", "o", "n", "f", "i", "g", " ",
      "e", "x", "c", "l", "u", "s", "i", "v", "e">>
CmdDeleteConfigure ==
    <<"d", "e", "l", "e", "t", "e", " ", "c", "o", "n", "f", "i", "g", "u", "r", "e">>
CmdCommit == <<"c", "o", "m", "m", "i", "t">>
CmdDiscard == <<"d", "i", "s", "c", "a", "r", "d">>
CmdQuitConfig == <<"q", "u", "i", "t", "-", "c", "o", "n", "f", "i", "g">>
CmdConfigureExclusive ==
    <<"c", "o", "n", "f", "i", "g", "u", "r", "e", " ",
      "e", "x", "c", "l", "u", "s", "i", "v", "e">>
CmdRollback1 == <<"r", "o", "l", "l", "b", "a", "c", "k", " ", "1">>
CmdExit == <<"e", "x", "i", "t">>
CmdEnvironmentMoreFalse ==
    <<"e", "n", "v", "i", "r", "o", "n", "m", "e", "n", "t", " ",
      "m", "o", "r", "e", " ", "f", "a", "l", "s", "e">>
CmdCompare == <<"c", "o", "m", "p", "a", "r", "e">>
\* "(ex)[]" and "configure", which compare_config looks for in output lines
ExHeader == <<"(", "e", "x", ")", "[", "]">>
Configure == <<"c", "o", "n", "f", "i", "g", "u", "r", "e">>

(***************************************************************************)
(* The device's shell output: lines the device can print, followed by the  *)
(* prompt that ends every response.                                        *)
(***************************************************************************)
\* "MINOR: 123: bad input"
ErrLine ==
    <<"M", "I", "N", "O", "R", ":", " ", "1", "2", "3", ":", " ",
      "b", "a", "d", " ", "i", "n", "p", "u", "t">>
\* "MINOR alarm": the word without the colon and space of the marker
BareLine == <<"M", "I", "N", "O", "R", " ", "a", "l", "a", "r", "m">>
\* "INFO: ok"
InfoLine == <<"I", "N", "F", "O", ":", " ", "o", "k">>
\* "A:R1# "
Prompt == <<"A", ":", "R", "1", "#", " ">>

DeviceLines == {ErrLine, BenignMarker, BareLine, InfoLine}

DeviceOutputs(n) ==
    {join(ls \o <<Prompt>>, NL) : ls \in SeqsUpTo(DeviceLines, n)}

\* The output of the batch of compare_config on a device in exclusive
\* configuration mode: the echo of "environment more false", the context line
\* "*(ex)[]" and the prompt with the echo of "compare" (or the prompt and the
\* echo on a line of its own), the lines the comparison prints, an empty
\* line, the context line and the prompt.
\* "*(ex)[]"
ExContextLine == <<"*">> \o ExHeader
\* lines of a comparison: "+ x", "    configure {" (indented), "- y " (a
\* trailing space), "+ compare" (the word of the command), an empty line and
\* an error line
DiffLines ==
    {<<"+", " ", "x">>, <<" ", " ", " ", " ", "c", "o", "n", "f", "i", "g", "u", "r", "e", " ", "{">>, <<"-", " ", "y", " ">>, <<"+", " ", "c", "o", "m", "p", "a", "r", "e">>, <<>>, ErrLine}

CompareOutputs(n) ==
    {join(head \o body \o <<<<>>, ExContextLine, Prompt>>, NL) :
        head \in {<<CmdEnvironmentMoreFalse, ExContextLine, Prompt \o CmdCompare>>,
                  <<CmdEnvironmentMoreFalse, ExContextLine, Prompt, CmdCompare>>},
        body \in SeqsUpTo(DiffLines, n)}

SampleCompareOutputs == CompareOutputs(1)
LongCompareOutputs == CompareOutputs(MaxOutLines)

\* the payloads and shell outputs that call sequences are explored with:
\* "<", " <", "c" and "c\nc"; the prompt alone and each line before the prompt
SamplePayloads == {<<"<">>, <<" ", "<">>, <<"c">>, <<"c", "\n", "c">>}
SampleOutputs == {Prompt} \cup {join(<<l, Prompt>>, NL) : l \in DeviceLines}

\* those that single calls are explored with
LongPayloads == Payloads(MaxPayload)
LongOutputs == DeviceOutputs(MaxOutLines)

(***************************************************************************)
(* Exceptions: the class raised and the message str(e) gives.              *)
(***************************************************************************)
NoExc == [kind |-> "none", msg |-> <<>>]
Exc(k, m) == [kind |-> k, msg |-> m]

(***************************************************************************)
(* Requests the driver sends during one call, in order.                    *)
(***************************************************************************)
Req(o, t, m, c) == [op |-> o, target |-> t, mode |-> m, cmds |-> c]
ReqLock == Req("lock", "", "", <<>>)
ReqUnlock == Req("unlock", "", "", <<>>)
ReqEditConfig(m) == Req("edit_config", "candidate", m, <<>>)
ReqValidate == Req("validate", "candidate", "", <<>>)
ReqCommit == Req("commit", "", "", <<>>)
ReqDiscardChanges == Req("discard_changes", "", "", <<>>)
ReqCli(cmds) == Req("cli", "", "", cmds)

VARIABLES
    conn,                 \* self.conn: "None" or the NETCONF "session"
    fmt,                  \* self.fmt: "None", "xml" or "text"
    locked,               \* self.locked
    lock_disable,         \* self.lock_disable
    session_config_lock,  \* self.session_config_lock
    remoteLock,           \* the device's candidate lock: "free", "self", "other"
    last,                 \* the last driver call: its inputs, result and pre-state
    trace,                \* the requests the last driver call sent, in order
    runOpen,              \* only structured loads since the last commit/discard
    runLen,               \* structured loads since the last commit/discard
    runLockReq,           \* lock() requests those loads sent
    runLockFails,         \* lock() requests of those loads that raised
    runStartLocked,       \* self.locked when the run began
    ft,                   \* the last _find_txt call: its arguments and result
    sh                    \* the _perform_cli_commands call in progress and its channel

vars ==
    <<conn, fmt, locked, lock_disable, session_config_lock, remoteLock, last, trace,
      runOpen, runLen, runLockReq, runLockFails, runStartLocked, ft, sh>>

(***************************************************************************)
(* The NETCONF session (self.conn), as the device answers it.  A request   *)
(* is answered ("reply": done when the device allows it, an error reply    *)
(* otherwise), refused with an error reply for another reason ("refuse"),  *)
(* or carried out with the reply not arriving within self.timeout          *)
(* ("lost"), which the client sees as an exception.  The error reply to    *)
(* lock() / unlock() reaches the driver as the SessionLockedException its  *)
(* except clauses name ("refuse"), or as the RPCError that ncclient raises *)
(* for an <rpc-error> reply ("denied").                                    *)
(***************************************************************************)
LockOutcomes == {"reply", "refuse", "denied", "lost"}
RpcOutcomes == {"ok", "error"}
\* manager.connect(): a session, the ConnectionException that open() names, or
\* another exception (ncclient's SSHError)
ConnectOutcomes == {"ok", "ConnectionException", "SSHError"}

\* the state of a call in progress: the driver's fields, the device's lock,
\* the requests sent so far, the pending exception, the request that raised
\* it and how (rejected by the device, or its reply lost), and the shell
\* output read
CallState(c, f, l, r) ==
    [conn |-> c, fmt |-> f, locked |-> l, remote |-> r, trace |-> <<>>,
     exc |-> NoExc, failedOp |-> "none", failedHow |-> "none",
     buff |-> <<>>, printed |-> <<>>, ret |-> <<"None">>]

Raised(st) == st.exc.kind # "none"

\* an attribute of self.conn is looked up while self.conn is None
NoSession(st) == [st EXCEPT !.exc = Exc("AttributeError", <<>>)]

\* the request `op` raises an exception of class `kind`
Fails(st, op, how, kind) ==
    [st EXCEPT !.exc = Exc(kind, <<>>), !.failedOp = op, !.failedHow = how]

\* the exception of an error reply to lock() / unlock()
RejectionKind(o) == IF o = "denied" THEN "RPCError" ELSE "SessionLockedException"

\* self.conn.lock()
conn_lock(st, o) ==
    LET sent == [st EXCEPT !.trace = Append(@, ReqLock)]
    IN  IF st.conn = "None" THEN NoSession(st)
        ELSE IF o = "reply" /\ st.remote = "free" THEN [sent EXCEPT !.remote = "self"]
        ELSE IF o = "lost"
        THEN Fails([sent EXCEPT !.remote = IF st.remote = "free" THEN "self" ELSE @],
                   "lock", "lost", "TimeoutExpiredError")
        ELSE Fails(sent, "lock", "rejected", RejectionKind(o))

\* self.conn.unlock()
conn_unlock(st, o) ==
    LET sent == [st EXCEPT !.trace = Append(@, ReqUnlock)]
    IN  IF st.conn = "None" THEN NoSession(st)
        ELSE IF o = "reply" /\ st.remote = "self" THEN [sent EXCEPT !.remote = "free"]
        ELSE IF o = "lost"
        THEN Fails([sent EXCEPT !.remote = IF st.remote = "self" THEN "free" ELSE @],
                   "unlock", "lost", "TimeoutExpiredError")
        ELSE Fails(sent, "unlock", "rejected", RejectionKind(o))

\* self.conn.edit_config / validate / commit / discard_changes
conn_rpc(st, req, o) ==
    LET sent == [st EXCEPT !.trace = Append(@, req)]
    IN  IF st.conn = "None" THEN NoSession(st)
        ELSE IF o = "ok" THEN sent
        ELSE Fails(sent, req.op, "rejected", "RPCError")

\* manager.connect(...) in open()
manager_connect(st, o) ==
    IF o = "ok" THEN [st EXCEPT !.conn = "session"] ELSE [st EXCEPT !.exc = Exc(o, <<>>)]

\* etree.XML(configuration)
etree_XML(st, parseOk) ==
    IF parseOk THEN st ELSE [st EXCEPT !.exc = Exc("XMLSyntaxError", <<>>)]

\* self._perform_cli_commands(commands), as its caller sees it: the batch is
\* run on the shell channel and the accumulated output returned
perform_cli_commands(st, commands, out) ==
    [st EXCEPT !.trace = Append(@, ReqCli(commands)), !.buff = out]

(***************************************************************************)
(* NokiaSROSDriver                                                         *)
(***************************************************************************)
\* open(): the ConnectionException of manager.connect() is logged and the
\* call returns; any other exception propagates
open(st, o) ==
    LET s1 == manager_connect(st, o)
    IN  IF s1.exc.kind = "ConnectionException" THEN [s1 EXCEPT !.exc = NoExc] ELSE s1

\* _lock_config without its `if not self.locked` test
_lock_config_unguarded(st, o) ==
    LET r == conn_lock(st, o)
    IN  IF Raised(r) THEN r ELSE [r EXCEPT !.locked = TRUE]

_lock_config(st, o) ==
    IF st.locked THEN st
    ELSE LET r == conn_lock(st, o)
         IN  IF Raised(r) THEN r ELSE [r EXCEPT !.locked = TRUE]

_unlock_config(st, o) ==
    IF ~st.locked THEN st
    ELSE LET r == conn_unlock(st, o)
         IN  IF Raised(r) THEN r ELSE [r EXCEPT !.locked = FALSE]

\* _determinne_config_format without the strip()
_determinne_config_format_unstripped(config) ==
    IF startswith(config, LT) THEN "xml" ELSE "text"

_determinne_config_format(config) ==
    IF startswith(strip(config), LT) THEN "xml" ELSE "text"

\* the `except MergeConfigException as me: raise MergeConfigException(me)`
\* clause (and its Replace twin): str() of the new exception is str(me)
Reraise(st, kind) ==
    IF st.exc.kind = kind THEN [st EXCEPT !.exc = Exc(kind, st.exc.msg)] ELSE st

\* the structured branch with validate() called before edit_config()
load_xml_validate_first(st, operation, lockingOn, oLock, parseOk, oEdit, oVal) ==
    LET s1 == IF lockingOn THEN _lock_config(st, oLock) ELSE st
        s2 == IF Raised(s1) THEN s1 ELSE etree_XML(s1, parseOk)
        s3 == IF Raised(s2) THEN s2 ELSE conn_rpc(s2, ReqValidate, oVal)
    IN  IF Raised(s3) THEN s3 ELSE conn_rpc(s3, ReqEditConfig(operation), oEdit)

\* the structured branch committing what it has validated
load_xml_and_commit(st, operation, lockingOn, oLock, parseOk, oEdit, oVal) ==
    LET s1 == IF lockingOn THEN _lock_config(st, oLock) ELSE st
        s2 == IF Raised(s1) THEN s1 ELSE etree_XML(s1, parseOk)
        s3 == IF Raised(s2) THEN s2 ELSE conn_rpc(s2, ReqEditConfig(operation), oEdit)
        s4 == IF Raised(s3) THEN s3 ELSE conn_rpc(s3, ReqValidate, oVal)
    IN  IF Raised(s4) THEN s4 ELSE conn_rpc(s4, ReqCommit, "ok")

\* a structured branch that requests the lock whatever the configuration says
load_xml_always_locking(st, operation, lockingOn, oLock, parseOk, oEdit, oVal) ==
    LET s1 == _lock_config(st, oLock)
        s2 == IF Raised(s1) THEN s1 ELSE etree_XML(s1, parseOk)
        s3 == IF Raised(s2) THEN s2 ELSE conn_rpc(s2, ReqEditConfig(operation), oEdit)
    IN  IF Raised(s3) THEN s3 ELSE conn_rpc(s3, ReqValidate, oVal)

\* a structured branch that releases the lock when the load fails
load_xml_unlock_on_failure(st, operation, lockingOn, oLock, parseOk, oEdit, oVal) ==
    LET s1 == IF lockingOn THEN _lock_config(st, oLock) ELSE st
        s2 == IF Raised(s1) THEN s1 ELSE etree_XML(s1, parseOk)
        s3 == IF Raised(s2) THEN s2 ELSE conn_rpc(s2, ReqEditConfig(operation), oEdit)
        s4 == IF Raised(s3) THEN s3 ELSE conn_rpc(s3, ReqValidate, oVal)
    IN  IF Raised(s4) /\ ~Raised(s1) /\ lockingOn
        THEN [_unlock_config([s4 EXCEPT !.exc = NoExc], "reply") EXCEPT !.exc = s4.exc]
        ELSE s4

\* the structured branch of both loads
load_xml(st, operation, lockingOn, oLock, parseOk, oEdit, oVal) ==
    LET s1 == IF lockingOn THEN _lock_config(st, oLock) ELSE st
        s2 == IF Raised(s1) THEN s1 ELSE etree_XML(s1, parseOk)
        s3 == IF Raised(s2) THEN s2 ELSE conn_rpc(s2, ReqEditConfig(operation), oEdit)
    IN  IF Raised(s3) THEN s3 ELSE conn_rpc(s3, ReqValidate, oVal)

\* load_merge_candidate recording the format when the load has succeeded
load_merge_candidate_fmt_on_success(st, config, lockingOn, oLock, parseOk, oEdit, oVal, out) ==
    LET detected == _determinne_config_format(config)
        r ==
            IF detected = "xml"
            THEN load_xml(st, "merge", lockingOn, oLock, parseOk, oEdit, oVal)
            ELSE LET configuration ==
                         <<CmdEditConfigExclusive>> \o split(config, SpaceNlSpace)
                     s1 == perform_cli_commands(st, configuration, out)
                 IN  IF \E i \in DOMAIN split(s1.buff, NL) :
                            contains(split(s1.buff, NL)[i], MinorColon)
                     THEN [s1 EXCEPT !.exc = Exc("MergeConfigException", <<>>)]
                     ELSE s1
        s2 == Reraise(r, "MergeConfigException")
    IN  IF Raised(s2) THEN s2 ELSE [s2 EXCEPT !.fmt = detected]

load_merge_candidate(st, config, lockingOn, oLock, parseOk, oEdit, oVal, out) ==
    LET s0 == [st EXCEPT !.fmt = _determinne_config_format(config)]
        r ==
            IF s0.fmt = "xml"
            THEN load_xml(s0, "merge", lockingOn, oLock, parseOk, oEdit, oVal)
            ELSE LET configuration ==
                         <<CmdEditConfigExclusive>> \o split(config, SpaceNlSpace)
                     s1 == perform_cli_commands(s0, configuration, out)
                 IN  IF \E i \in DOMAIN split(s1.buff, NL) :
                            contains(split(s1.buff, NL)[i], MinorColon)
                     THEN [s1 EXCEPT !.exc = Exc("MergeConfigException", <<>>)]
                     ELSE s1
    IN  Reraise(r, "MergeConfigException")

\* load_replace_candidate splitting its payload as load_merge_candidate does
load_replace_candidate_merge_split(st, config, lockingOn, oLock, parseOk, oEdit, oVal, out) ==
    LET s0 == [st EXCEPT !.fmt = _determinne_config_format(config)]
        r ==
            IF s0.fmt = "xml"
            THEN load_xml(s0, "replace", lockingOn, oLock, parseOk, oEdit, oVal)
            ELSE LET configuration ==
                         <<CmdEditConfigExclusive, CmdDeleteConfigure>>
                             \o split(config, SpaceNlSpace)
                     s1 == perform_cli_commands(s0, configuration, out)
                 IN  IF \E i \in DOMAIN split(s1.buff, NL) :
                            contains(split(s1.buff, NL)[i], Minor)
                     THEN [s1 EXCEPT !.exc = Exc("ReplaceConfigException", <<>>)]
                     ELSE s1
    IN  Reraise(r, "ReplaceConfigException")

load_replace_candidate(st, config, lockingOn, oLock, parseOk, oEdit, oVal, out) ==
    LET s0 == [st EXCEPT !.fmt = _determinne_config_format(config)]
        r ==
            IF s0.fmt = "xml"
            THEN load_xml(s0, "replace", lockingOn, oLock, parseOk, oEdit, oVal)
            ELSE LET configuration ==
                         <<CmdEditConfigExclusive, CmdDeleteConfigure>>
                             \o split(config, NL)
                     s1 == perform_cli_commands(s0, configuration, out)
                 IN  IF \E i \in DOMAIN split(s1.buff, NL) :
                            contains(split(s1.buff, NL)[i], Minor)
                     THEN [s1 EXCEPT !.exc = Exc("ReplaceConfigException", <<>>)]
                     ELSE s1
    IN  Reraise(r, "ReplaceConfigException")

\* cmd_line_pattern.search(item) for re.compile("\*?(.*?)(>.*)*#\s"): some "#"
\* of the item is followed by a whitespace character
cmd_line_pattern_search(item) ==
    \E i \in 1..(Len(item) - 1) : item[i] = "#" /\ item[i + 1] \in Whitespace \cup {"\t"}

\* the scan of commit_config: [exc, error] after the items from index i on
RECURSIVE commit_scan(_, _, _)
commit_scan(items, i, error) ==
    IF i > Len(items) THEN [exc |-> NoExc, error |-> error]
    ELSE IF cmd_line_pattern_search(items[i]) THEN commit_scan(items, i + 1, error)
    ELSE IF contains(items[i], MinorColon)
    THEN LET row_list == split(strip(items[i]), ColonSpace)
         IN  IF Len(row_list) < 3
             THEN [exc |-> Exc("IndexError", <<>>), error |-> error]
             ELSE commit_scan(items, i + 1, error \o row_list[3])
    ELSE commit_scan(items, i + 1, error)

\* commit_config releasing the lock after a text commit too
commit_config_unlock_after_text(st, lockingOn, oCommit, oUnlock, out) ==
    IF st.fmt = "text"
    THEN LET s1 == perform_cli_commands(st, <<CmdCommit>>, out)
             sc == commit_scan(split(s1.buff, NL), 1, <<>>)
             s2 == IF sc.exc.kind # "none" THEN [s1 EXCEPT !.exc = sc.exc]
                   ELSE [s1 EXCEPT !.printed = sc.error]
         IN  IF Raised(s2) \/ ~lockingOn THEN s2 ELSE _unlock_config(s2, oUnlock)
    ELSE IF st.fmt = "xml"
    THEN LET s1 == conn_rpc(st, ReqCommit, oCommit)
         IN  IF Raised(s1) \/ ~lockingOn THEN s1 ELSE _unlock_config(s1, oUnlock)
    ELSE st

commit_config(st, lockingOn, oCommit, oUnlock, out) ==
    IF st.fmt = "text"
    THEN LET s1 == perform_cli_commands(st, <<CmdCommit>>, out)
             sc == commit_scan(split(s1.buff, NL), 1, <<>>)
         IN  IF sc.exc.kind # "none" THEN [s1 EXCEPT !.exc = sc.exc]
             ELSE [s1 EXCEPT !.printed = sc.error]
    ELSE IF st.fmt = "xml"
    THEN LET s1 == conn_rpc(st, ReqCommit, oCommit)
         IN  IF Raised(s1) \/ ~lockingOn THEN s1 ELSE _unlock_config(s1, oUnlock)
    ELSE st

\* discard_config releasing the lock before it discards
discard_config_unlock_first(st, lockingOn, oDiscard, oUnlock, out) ==
    LET s1 == IF lockingOn THEN _unlock_config(st, oUnlock) ELSE st
    IN  IF Raised(s1) THEN s1
        ELSE IF st.fmt = "xml" THEN conn_rpc(s1, ReqDiscardChanges, oDiscard)
        ELSE perform_cli_commands(s1, <<CmdDiscard>>, out)

discard_config(st, lockingOn, oDiscard, oUnlock, out) ==
    LET s1 == IF st.fmt = "xml" THEN conn_rpc(st, ReqDiscardChanges, oDiscard)
              ELSE perform_cli_commands(st, <<CmdDiscard>>, out)
    IN  IF Raised(s1) \/ ~lockingOn THEN s1 ELSE _unlock_config(s1, oUnlock)

\* the scan of rollback: the first "MINOR: " line that is not the benign one
RECURSIVE rollback_scan(_, _)
rollback_scan(items, i) ==
    IF i > Len(items) THEN <<"None">>
    ELSE IF contains(items[i], BenignMarker) THEN rollback_scan(items, i + 1)
    ELSE IF contains(items[i], MinorColon) THEN strip(items[i])
    ELSE rollback_scan(items, i + 1)

rollback(st, out) ==
    LET cmd == <<CmdQuitConfig, CmdConfigureExclusive, CmdRollback1, CmdCommit, CmdExit>>
        s1 == perform_cli_commands(st, cmd, out)
    IN  [s1 EXCEPT !.ret = rollback_scan(split(s1.buff, NL), 1)]

\* s.rstrip("\n")
RECURSIVE rstrip_newlines(_)
rstrip_newlines(s) ==
    IF s # <<>> /\ s[Len(s)] = "\n" THEN rstrip_newlines(SubSeq(s, 1, Len(s) - 1)) ELSE s

\* the scan of compare_config with `first_compare` never set: every line
\* that contains "compare" is dropped
RECURSIVE compare_scan_every_compare(_, _, _, _)
compare_scan_every_compare(items, i, first_compare, new_buff) ==
    IF i > Len(items) THEN new_buff
    ELSE IF contains(items[i], MinorColon) THEN new_buff \o strip(items[i])
    ELSE IF \/ contains(items[i], CmdCompare)
            \/ contains(items[i], ExHeader)
            \/ contains(items[i], CmdEnvironmentMoreFalse)
            \/ cmd_line_pattern_search(items[i])
            \/ rstrip(items[i]) = <<>>
    THEN compare_scan_every_compare(items, i + 1, first_compare, new_buff)
    ELSE LET row == rstrip(items[i])
         IN  compare_scan_every_compare(items, i + 1, first_compare,
                 new_buff \o (IF contains(row, Configure) THEN lstrip(row) ELSE row) \o NL)

\* the scan of compare_config: new_buff after the items from index i on
RECURSIVE compare_scan(_, _, _, _)
compare_scan(items, i, first_compare, new_buff) ==
    IF i > Len(items) THEN new_buff
    ELSE IF contains(items[i], MinorColon) THEN new_buff \o strip(items[i])
    ELSE IF ~first_compare /\ contains(items[i], CmdCompare)
    THEN compare_scan(items, i + 1, TRUE, new_buff)
    ELSE IF \/ contains(items[i], ExHeader)
            \/ contains(items[i], CmdEnvironmentMoreFalse)
            \/ cmd_line_pattern_search(items[i])
            \/ rstrip(items[i]) = <<>>
    THEN compare_scan(items, i + 1, first_compare, new_buff)
    ELSE LET row == rstrip(items[i])
         IN  compare_scan(items, i + 1, first_compare,
                 new_buff \o (IF contains(row, Configure) THEN lstrip(row) ELSE row) \o NL)

compare_config(st, out) ==
    LET s1 == IF st.fmt = "text"
              THEN perform_cli_commands(st, <<CmdEnvironmentMoreFalse, CmdCompare>>, out)
              ELSE st
    IN  [s1 EXCEPT !.ret = rstrip_newlines(compare_scan(split(s1.buff, NL), 1, FALSE, <<>>))]

(***************************************************************************)
(* _find_txt and the XPath evaluation it rests on.                         *)
(*                                                                         *)
(* A tree is the element of a NETCONF reply with up to MaxKids child       *)
(* elements in the state namespace, or an object that is no element.  A    *)
(* path is one of the XPath forms the driver uses: prefix:tag (elements),  *)
(* prefix:tag/text() (strings), count(prefix:tag) (a number),              *)
(* string(prefix:tag) (a string), and prefix:tag[ (malformed).             *)
(***************************************************************************)
\* None, told apart from every string
None == <<"None">>

\* Python values: str, int, float
StrVal(x) == [t |-> "str", s |-> x, n |-> 0]
IntVal(k) == [t |-> "int", s |-> <<>>, n |-> k]
FloatVal(k) == [t |-> "float", s |-> <<>>, n |-> k]

\* str(k) for the integers the model meets
Digits(k) ==
    IF k < 0 THEN <<"-">> \o <<<<"0", "1", "2", "3", "4", "5", "6", "7", "8", "9">>[1 - k]>>
    ELSE <<<<"0", "1", "2", "3", "4", "5", "6", "7", "8", "9">>[k + 1]>>

\* str(v)
pystr(v) ==
    IF v.t = "str" THEN v.s
    ELSE IF v.t = "int" THEN Digits(v.n)
    ELSE Digits(v.n) \o <<".", "0">>

\* self.nsmap / NSMAP: the prefixes it defines, and the namespace of each
NSMAP == {"state_ns", "configure_ns"}
Prefixes == NSMAP \cup {"other_ns"}
Tags == {"a", "b"}
\* the text of an element: None, " v " and "w"
Texts == {None, <<" ", "v", " ">>, <<"w">>}

Kids == [tag : Tags, text : Texts]
Element(kids) == [kind |-> "element", kids |-> kids]
NotAnElement == [kind |-> "NoneType", kids |-> <<>>]
Trees == {Element(ks) : ks \in SeqsUpTo(Kids, MaxKids)} \cup {NotAnElement}

PathKinds == {"elements", "text", "count", "string", "malformed"}
Paths == [kind : PathKinds, prefix : Prefixes, tag : Tags]

\* the values of the `namespaces` argument: None and the driver's map
NamespaceArgs == {{}, NSMAP}

\* the values of the `default` argument: "", "N/A" and -1
Defaults == {StrVal(<<>>), StrVal(<<"N", "/", "A">>), IntVal(-1)}

\* what xml_tree.xpath(path, namespaces=namespaces) gives: an exception, or a
\* list of items (elements and strings), a string or a number
XpathRaise(kind) == [exc |-> kind, rtype |-> "none", items |-> <<>>, val |-> StrVal(<<>>)]
XpathList(items) == [exc |-> "none", rtype |-> "list", items |-> items, val |-> StrVal(<<>>)]
XpathScalar(v) == [exc |-> "none", rtype |-> v.t, items |-> <<>>, val |-> v]

NodeItem(kid) == [t |-> "node", text |-> kid.text]
StrItem(x) == [t |-> "str", text |-> x]

RECURSIVE MapItems(_, _)
MapItems(kids, asNode) ==
    IF kids = <<>> THEN <<>>
    ELSE <<IF asNode THEN NodeItem(Head(kids)) ELSE StrItem(Head(kids).text)>>
             \o MapItems(Tail(kids), asNode)

xpath(tree, path, namespaces) ==
    IF tree.kind # "element" THEN XpathRaise("AttributeError")
    ELSE IF path.kind = "malformed" THEN XpathRaise("XPathEvalError")
    ELSE IF path.prefix \notin namespaces THEN XpathRaise("XPathEvalError")
    ELSE LET matches ==
                 SelectSeq(tree.kids,
                           LAMBDA k : path.prefix = "state_ns" /\ k.tag = path.tag)
             withText == SelectSeq(matches, LAMBDA k : k.text # None)
         IN  IF path.kind = "elements" THEN XpathList(MapItems(matches, TRUE))
             ELSE IF path.kind = "text" THEN XpathList(MapItems(withText, FALSE))
             ELSE IF path.kind = "count" THEN XpathScalar(FloatVal(Len(matches)))
             ELSE XpathScalar(StrVal(IF withText = <<>> \/ matches[1].text = None
                                     THEN <<>> ELSE matches[1].text))

\* the try block taking the last match, xpath_applied[-1], for the first
FindTxtTry_last_match(xml_tree, path, namespaces) ==
    LET xpath_applied == xpath(xml_tree, path, namespaces)
        ok(value, logged) == [exc |-> "none", value |-> value, logged |-> logged]
    IN  IF xpath_applied.exc # "none"
        THEN [exc |-> xpath_applied.exc, value |-> <<>>, logged |-> FALSE]
        ELSE IF xpath_applied.rtype = "float"
        THEN [exc |-> "TypeError", value |-> <<>>, logged |-> FALSE]
        ELSE IF xpath_applied.rtype = "list"
        THEN IF Len(xpath_applied.items) > 0
             THEN LET xpath_result == xpath_applied.items[Len(xpath_applied.items)]
                  IN  IF xpath_result.t = "node"
                      THEN IF xpath_result.text # None
                           THEN ok(strip(xpath_result.text), FALSE)
                           ELSE ok(<<>>, FALSE)
                      ELSE ok(xpath_result.text, FALSE)
             ELSE ok(<<>>, FALSE)
        ELSE IF Len(xpath_applied.val.s) > 0
             THEN ok(<<xpath_applied.val.s[1]>>, FALSE)
             ELSE ok(<<>>, TRUE)

\* the body of the try block: the exception it ends with, the value it
\* assigns and whether it logs
FindTxtTry(xml_tree, path, namespaces) ==
    LET xpath_applied == xpath(xml_tree, path, namespaces)
        ok(value, logged) == [exc |-> "none", value |-> value, logged |-> logged]
    IN  IF xpath_applied.exc # "none"
        THEN [exc |-> xpath_applied.exc, value |-> <<>>, logged |-> FALSE]
        ELSE IF xpath_applied.rtype = "float"
        THEN \* len() of a number
             [exc |-> "TypeError", value |-> <<>>, logged |-> FALSE]
        ELSE IF xpath_applied.rtype = "list"
        THEN IF Len(xpath_applied.items) > 0
             THEN LET xpath_result == xpath_applied.items[1]
                  IN  IF xpath_result.t = "node"
                      THEN IF xpath_result.text # None
                           THEN ok(strip(xpath_result.text), FALSE)
                           ELSE ok(<<>>, FALSE)
                      ELSE ok(xpath_result.text, FALSE)
             ELSE ok(<<>>, FALSE)
        ELSE \* a string: its first character is xpath_applied[0]
             IF Len(xpath_applied.val.s) > 0
             THEN ok(<<xpath_applied.val.s[1]>>, FALSE)
             ELSE ok(<<>>, TRUE)

\* the exceptions `except Exception` catches: every one the try block raises
CaughtByExceptException == {"AttributeError", "XPathEvalError", "TypeError"}

\* an except clause that names lxml's XPath errors only
CaughtByExceptXPathError == {"XPathEvalError"}

\* the handler of _find_txt, catching the classes `caught`
FindTxtExcept(xml_tree, path, default, namespaces, caught) ==
    LET body == FindTxtTry(xml_tree, path, namespaces)
    IN  IF body.exc = "none"
        THEN [raised |-> "none", ret |-> body.value, logged |-> body.logged]
        ELSE IF body.exc \in caught
        THEN [raised |-> "none", ret |-> pystr(default), logged |-> TRUE]
        ELSE [raised |-> body.exc, ret |-> None, logged |-> FALSE]

_find_txt_except_xpath_error(xml_tree, path, default, namespaces) ==
    FindTxtExcept(xml_tree, path, default, namespaces, CaughtByExceptXPathError)

_find_txt(xml_tree, path, default, namespaces) ==
    FindTxtExcept(xml_tree, path, default, namespaces, CaughtByExceptException)

NoFindTxt ==
    [called |-> FALSE, xml_tree |-> NotAnElement,
     path |-> [kind |-> "elements", prefix |-> "state_ns", tag |-> "a"],
     default |-> StrVal(<<>>), namespaces |-> {},
     raised |-> "none", ret |-> <<>>, logged |-> FALSE]

(***************************************************************************)
(* _perform_cli_commands, read by read.  The driver writes a command and   *)
(* reads the channel until the accumulated buffer ends with "# ".  The     *)
(* device runs each complete line of its input and answers with the echo   *)
(* of the line, the output of the command and the prompt; its answer       *)
(* reaches the driver in chunks, and a read returns what has arrived.      *)
(***************************************************************************)
\* commands of a batch: "show", "info", and "c\nd" with a newline inside
ShellCommands ==
    {<<"s", "h", "o", "w">>, <<"i", "n", "f", "o">>, <<"c", "\n", "d">>}

Batches == SeqsUpTo(ShellCommands, MaxBatch) \ {<<>>}

\* what a command prints before the prompt: the line "ok", or the line
\* "v # w" with a "#" and a space inside
CommandOutputs ==
    {<<"o", "k", "\n">>, <<"v", " ", "#", " ", "w", "\n">>}

\* no call in progress
NoShellCall ==
    [pc |-> "idle", commands |-> <<>>, k |-> 0, buff |-> <<>>, written |-> <<>>,
     input |-> <<>>, wire |-> <<>>, delivered |-> <<>>,
     conn_ssh |-> "None", transport |-> "none", ssh_channel |-> "None",
     entry |-> "none",
     read_since_write |-> FALSE, prompt_before_write |-> <<>>]

\* the ways a driver comes to a _perform_cli_commands call: without an SSH
\* connection (__init__ found no ssh_conn in optional_args), or with one whose
\* transport is active or not; with or without a shell channel
\* (optional_args ssh_channel)
SshSessions ==
    {[conn_ssh |-> c, transport |-> t, ssh_channel |-> ch] :
        c \in {"None", "given"}, t \in {"none", "active", "inactive"},
        ch \in {"None", "given"}}

Constructions == {s \in SshSessions : (s.conn_ssh = "None") <=> (s.transport = "none")}

\* entry of _perform_cli_commands(commands) on the session s: `unread` is
\* what the channel the call will write to holds that no call has read
\* (nothing, or the prompt the shell printed when it was invoked); `entry` is
\* the session as the call found it, kept until the first write
ShellCall(commands, unread, s) ==
    [pc |-> "connect", commands |-> commands, k |-> 1, buff |-> <<>>, written |-> <<>>,
     input |-> <<>>, wire |-> unread, delivered |-> unread,
     conn_ssh |-> s.conn_ssh, transport |-> s.transport, ssh_channel |-> s.ssh_channel,
     entry |-> s,
     read_since_write |-> FALSE, prompt_before_write |-> <<>>]

\* self._create_ssh(): a new connection and a new shell
_create_ssh(s) ==
    [s EXCEPT !.conn_ssh = "created", !.transport = "active", !.ssh_channel = "created"]

\* is_alive = False; if self.conn_ssh is not None: is_alive = ...is_active()
is_active(s) == s.conn_ssh # "None" /\ s.transport = "active"

\* the first lines of _perform_cli_commands: the connection is created
\* unless the driver has one whose transport is active
ShellConnect ==
    /\ sh.pc = "connect"
    /\ sh' = [(IF is_active(sh) THEN sh ELSE _create_ssh(sh)) EXCEPT !.pc = "send"]
    /\ UNCHANGED <<conn, fmt, locked, lock_disable, session_config_lock, remoteLock,
                   last, trace, runOpen, runLen, runLockReq, runLockFails,
                   runStartLocked, ft>>

\* a write that never appends the newline
Written_as_given(c) == c

\* the text written for command c
Written(c) == IF contains(c, NL) THEN c ELSE c \o NL

\* self.ssh_channel.send(c): an AttributeError when self.ssh_channel is None
ShellSend ==
    /\ sh.pc = "send"
    /\ sh' = IF sh.ssh_channel = "None"
             THEN [sh EXCEPT !.pc = "raised"]
             ELSE [sh EXCEPT !.written = Append(@, Written(sh.commands[sh.k])),
                             !.entry = "none",
                             !.input = @ \o Written(sh.commands[sh.k]),
                             !.prompt_before_write =
                                 Append(@, sh.read_since_write
                                           /\ endswith(sh.buff, HashSpace)),
                             !.read_since_write = FALSE,
                             !.pc = "recv"]
    /\ UNCHANGED <<conn, fmt, locked, lock_disable, session_config_lock, remoteLock,
                   last, trace, runOpen, runLen, runLockReq, runLockFails,
                   runStartLocked, ft>>

\* the device runs the first complete line of its input
DeviceRespond ==
    /\ contains(sh.input, NL)
    /\ \E out \in CommandOutputs :
           LET n == find(sh.input, NL, 1)
               answer == SubSeq(sh.input, 1, n) \o out \o Prompt
           IN  sh' = [sh EXCEPT !.input = SubSeq(@, n + 1, Len(@)),
                               !.wire = @ \o answer,
                               !.delivered = @ \o answer]
    /\ UNCHANGED <<conn, fmt, locked, lock_disable, session_config_lock, remoteLock,
                   last, trace, runOpen, runLen, runLockReq, runLockFails,
                   runStartLocked, ft>>

\* a read that starts a fresh buffer for every command
ShellRecv_fresh_buffer ==
    /\ sh.pc = "recv"
    /\ \E n \in 1..Len(sh.wire) :
           LET buff == (IF sh.read_since_write THEN sh.buff ELSE <<>>)
                           \o SubSeq(sh.wire, 1, n)
           IN  sh' = [sh EXCEPT !.buff = buff,
                               !.wire = SubSeq(@, n + 1, Len(@)),
                               !.read_since_write = TRUE,
                               !.k = IF endswith(buff, HashSpace) /\ @ < Len(sh.commands)
                                     THEN @ + 1 ELSE @,
                               !.pc = IF ~endswith(buff, HashSpace) THEN "recv"
                                      ELSE IF sh.k < Len(sh.commands) THEN "send"
                                      ELSE "done"]
    /\ UNCHANGED <<conn, fmt, locked, lock_disable, session_config_lock, remoteLock,
                   last, trace, runOpen, runLen, runLockReq, runLockFails,
                   runStartLocked, ft>>

\* resp = self.ssh_channel.recv(9999); buff += resp; the test of the tail
ShellRecv ==
    /\ sh.pc = "recv"
    /\ \E n \in 1..Len(sh.wire) :
           LET buff == sh.buff \o SubSeq(sh.wire, 1, n)
           IN  sh' = [sh EXCEPT !.buff = buff,
                               !.wire = SubSeq(@, n + 1, Len(@)),
                               !.read_since_write = TRUE,
                               !.k = IF endswith(buff, HashSpace) /\ @ < Len(sh.commands)
                                     THEN @ + 1 ELSE @,
                               !.pc = IF ~endswith(buff, HashSpace) THEN "recv"
                                      ELSE IF sh.k < Len(sh.commands) THEN "send"
                                      ELSE "done"]
    /\ UNCHANGED <<conn, fmt, locked, lock_disable, session_config_lock, remoteLock,
                   last, trace, runOpen, runLen, runLockReq, runLockFails,
                   runStartLocked, ft>>

(***************************************************************************)
(* The state machine: one action per public call of the driver, each the   *)
(* whole call, and one for the other NETCONF sessions of the device.       *)
(***************************************************************************)
LockingOn == ~lock_disable /\ ~session_config_lock

Enter == CallState(conn, fmt, locked, remoteLock)

IsLoad(name) == name \in {"load_merge_candidate", "load_replace_candidate"}

CountLock(tr) == Cardinality({i \in DOMAIN tr : tr[i].op = "lock"})

LockRaised(st) == st.failedOp = "lock"

\* the call `name` with payload `config` ends in call state `st`
Return(name, config, st) ==
    /\ conn' = st.conn
    /\ fmt' = st.fmt
    /\ locked' = st.locked
    /\ remoteLock' = st.remote
    /\ trace' = st.trace
    /\ last' = [name |-> name, config |-> config, exc |-> st.exc,
                failedOp |-> st.failedOp, failedHow |-> st.failedHow,
                buff |-> st.buff, printed |-> st.printed, ret |-> st.ret,
                pre_locked |-> locked, pre_remote |-> remoteLock, pre_fmt |-> fmt]
    /\ UNCHANGED <<lock_disable, session_config_lock, ft, sh>>
    /\ IF name \in {"commit_config", "discard_config"}
       THEN /\ runOpen' = TRUE
            /\ runLen' = 0
            /\ runLockReq' = 0
            /\ runLockFails' = 0
            /\ runStartLocked' = st.locked
       ELSE IF name = "open" \/ (IsLoad(name) /\ st.fmt = "xml" /\ st.conn = "None")
       THEN \* no request can be sent before the session is established
            UNCHANGED <<runOpen, runLen, runLockReq, runLockFails, runStartLocked>>
       ELSE IF IsLoad(name) /\ st.fmt = "xml" /\ runOpen
       THEN /\ runLen' = runLen + 1
            /\ runLockReq' = runLockReq + CountLock(st.trace)
            /\ runLockFails' = runLockFails + (IF LockRaised(st) THEN 1 ELSE 0)
            /\ UNCHANGED <<runOpen, runStartLocked>>
       ELSE /\ runOpen' = FALSE
            /\ runLen' = 0
            /\ runLockReq' = 0
            /\ runLockFails' = 0
            /\ UNCHANGED runStartLocked

\* `last` before the first call
Constructed(r) ==
    [name |-> "__init__", config |-> <<>>, exc |-> NoExc, failedOp |-> "none",
     failedHow |-> "none", buff |-> <<>>, printed |-> <<>>, ret |-> <<"None">>,
     pre_locked |-> FALSE, pre_remote |-> r, pre_fmt |-> "None"]

Init ==
    /\ conn = "None"
    /\ fmt = "None"
    /\ locked = FALSE
    /\ lock_disable \in BOOLEAN
    /\ session_config_lock \in BOOLEAN
    /\ remoteLock \in {"free", "other"}
    /\ last = Constructed(remoteLock)
    /\ trace = <<>>
    /\ runOpen = TRUE
    /\ runLen = 0
    /\ runLockReq = 0
    /\ runLockFails = 0
    /\ runStartLocked = FALSE
    /\ ft = NoFindTxt
    /\ sh = NoShellCall

\* the outcomes of lock() / unlock() a call can meet, among those of L
LockChoices(needed, L) == IF needed THEN L ELSE {"reply"}

\* the actions below take the payloads P, the shell outputs O and the outcomes
\* L of lock() / unlock() that the environment can produce

LoadMergeOn(P, O, L) ==
    \E config \in P :
        IF _determinne_config_format(config) = "xml"
        THEN /\ runLen < MaxRun
             /\ \E oLock \in LockChoices(LockingOn /\ ~locked, L), parseOk \in BOOLEAN,
                   oEdit, oVal \in RpcOutcomes :
                    \E st \in {load_merge_candidate(Enter, config, LockingOn, oLock, parseOk, oEdit, oVal, <<>>)} :
                        Return("load_merge_candidate", config, st)
        ELSE \E out \in O :
                 \E st \in {load_merge_candidate(Enter, config, LockingOn, "reply", TRUE, "ok", "ok", out)} :
                     Return("load_merge_candidate", config, st)

LoadReplaceOn(P, O, L) ==
    \E config \in P :
        IF _determinne_config_format(config) = "xml"
        THEN /\ runLen < MaxRun
             /\ \E oLock \in LockChoices(LockingOn /\ ~locked, L), parseOk \in BOOLEAN,
                   oEdit, oVal \in RpcOutcomes :
                    \E st \in {load_replace_candidate(Enter, config, LockingOn, oLock, parseOk, oEdit, oVal, <<>>)} :
                        Return("load_replace_candidate", config, st)
        ELSE \E out \in O :
                 \E st \in {load_replace_candidate(Enter, config, LockingOn, "reply", TRUE, "ok", "ok", out)} :
                     Return("load_replace_candidate", config, st)

CommitConfigOn(O, L) ==
    IF fmt = "text"
    THEN \E out \in O :
             \E st \in {commit_config(Enter, LockingOn, "ok", "reply", out)} :
                 Return("commit_config", <<>>, st)
    ELSE \E oCommit \in RpcOutcomes, oUnlock \in LockChoices(LockingOn /\ locked, L) :
             \E st \in {commit_config(Enter, LockingOn, oCommit, oUnlock, <<>>)} :
                 Return("commit_config", <<>>, st)

DiscardConfigOn(O, L) ==
    IF fmt = "xml"
    THEN \E oDiscard \in RpcOutcomes, oUnlock \in LockChoices(LockingOn /\ locked, L) :
             \E st \in {discard_config(Enter, LockingOn, oDiscard, oUnlock, <<>>)} :
                 Return("discard_config", <<>>, st)
    ELSE \E out \in O, oUnlock \in LockChoices(LockingOn /\ locked, L) :
             \E st \in {discard_config(Enter, LockingOn, "ok", oUnlock, out)} :
                 Return("discard_config", <<>>, st)

\* open() on a driver that has no session yet
Open ==
    /\ conn = "None"
    /\ \E o \in ConnectOutcomes : \E st \in {open(Enter, o)} : Return("open", <<>>, st)

RollbackOn(O) ==
    \E out \in O : \E st \in {rollback(Enter, out)} :
                        Return("rollback", <<>>, st)

CompareConfigOn(O) ==
    IF fmt = "text"
    THEN \E out \in O : \E st \in {compare_config(Enter, out)} :
                             Return("compare_config", <<>>, st)
    ELSE \E st \in {compare_config(Enter, <<>>)} : Return("compare_config", <<>>, st)

LoadMerge == LoadMergeOn(SamplePayloads, SampleOutputs, LockOutcomes)

LoadReplace == LoadReplaceOn(SamplePayloads, SampleOutputs, LockOutcomes)

CommitConfig == CommitConfigOn(SampleOutputs, LockOutcomes)

DiscardConfig == DiscardConfigOn(SampleOutputs, LockOutcomes)

Rollback == RollbackOn(SampleOutputs)

CompareConfig == CompareConfigOn(SampleCompareOutputs)

\* another NETCONF session takes or releases the device's lock
OtherSession ==
    /\ remoteLock \in {"free", "other"}
    /\ remoteLock' = IF remoteLock = "free" THEN "other" ELSE "free"
    /\ UNCHANGED <<conn, fmt, locked, lock_disable, session_config_lock, last, trace,
                   runOpen, runLen, runLockReq, runLockFails, runStartLocked, ft, sh>>

Next ==
    \/ Open
    \/ LoadMerge
    \/ LoadReplace
    \/ CommitConfig
    \/ DiscardConfig
    \/ Rollback
    \/ CompareConfig
    \/ OtherSession

Spec == Init /\ [][Next]_vars

(***************************************************************************)
(* The same call sequences on a network that loses no reply: every         *)
(* lock() and unlock() is answered or refused.                             *)
(***************************************************************************)
AckedOutcomes == {"reply", "refuse", "denied"}

AckedLoadMerge == LoadMergeOn(SamplePayloads, SampleOutputs, AckedOutcomes)

AckedLoadReplace ==
    LoadReplaceOn(SamplePayloads, SampleOutputs, AckedOutcomes)

AckedCommitConfig == CommitConfigOn(SampleOutputs, AckedOutcomes)

AckedDiscardConfig == DiscardConfigOn(SampleOutputs, AckedOutcomes)

NextAcked ==
    \/ Open
    \/ AckedLoadMerge
    \/ AckedLoadReplace
    \/ AckedCommitConfig
    \/ AckedDiscardConfig
    \/ Rollback
    \/ CompareConfig
    \/ OtherSession

SpecAcked == Init /\ [][NextAcked]_vars

(***************************************************************************)
(* One call of the driver, made in any state of the driver and the device  *)
(* that a call sequence reaches, with every payload up to MaxPayload       *)
(* characters and every shell output up to MaxOutLines lines.              *)
(***************************************************************************)
InitCall ==
    /\ conn \in {"None", "session"}
    /\ fmt \in {"None", "xml", "text"}
    /\ locked \in BOOLEAN
    /\ lock_disable \in BOOLEAN
    /\ session_config_lock \in BOOLEAN
    /\ remoteLock \in {"free", "self", "other"}
    /\ (conn = "None" \/ fmt = "None" \/ lock_disable \/ session_config_lock) =>
           (~locked /\ remoteLock # "self")
    /\ last = Constructed(remoteLock)
    /\ trace = <<>>
    /\ runOpen = FALSE
    /\ runLen = 0
    /\ runLockReq = 0
    /\ runLockFails = 0
    /\ runStartLocked = (locked /\ remoteLock # "self")
    /\ ft = NoFindTxt
    /\ sh = NoShellCall

CallLoadMerge ==
    /\ last.name = "__init__"
    /\ \/ LoadMergeOn(LongPayloads, SampleOutputs, LockOutcomes)
       \/ LoadMergeOn(SamplePayloads, LongOutputs, LockOutcomes)

CallLoadReplace ==
    /\ last.name = "__init__"
    /\ \/ LoadReplaceOn(LongPayloads, SampleOutputs, LockOutcomes)
       \/ LoadReplaceOn(SamplePayloads, LongOutputs, LockOutcomes)

CallCommitConfig ==
    /\ last.name = "__init__"
    /\ CommitConfigOn(LongOutputs, LockOutcomes)

CallDiscardConfig ==
    /\ last.name = "__init__"
    /\ DiscardConfigOn(LongOutputs, LockOutcomes)

CallRollback ==
    /\ last.name = "__init__"
    /\ RollbackOn(LongOutputs)

CallCompareConfig ==
    /\ last.name = "__init__"
    /\ CompareConfigOn(LongCompareOutputs)

CallOpen ==
    /\ last.name = "__init__"
    /\ Open

NextCall ==
    \/ CallOpen
    \/ CallLoadMerge
    \/ CallLoadReplace
    \/ CallCommitConfig
    \/ CallDiscardConfig
    \/ CallRollback
    \/ CallCompareConfig

SpecCall == InitCall /\ [][NextCall]_vars

(***************************************************************************)
(* _find_txt applied to every tree, path, default and namespace map of the *)
(* bounds, on a freshly constructed driver.                                *)
(***************************************************************************)
InitFind ==
    /\ Init
    /\ ~lock_disable
    /\ ~session_config_lock
    /\ remoteLock = "free"

\* _find_txt reads no field of the driver: one call on each input
FindTxt ==
    /\ ~ft.called
    /\ \E xml_tree \in Trees, path \in Paths, default \in Defaults,
          namespaces \in NamespaceArgs :
           \E r \in {_find_txt(xml_tree, path, default, namespaces)} :
               ft' = [called |-> TRUE, xml_tree |-> xml_tree, path |-> path,
                      default |-> default, namespaces |-> namespaces,
                      raised |-> r.raised, ret |-> r.ret, logged |-> r.logged]
    /\ UNCHANGED <<conn, fmt, locked, lock_disable, session_config_lock, remoteLock, last,
                   trace, runOpen, runLen, runLockReq, runLockFails, runStartLocked, sh>>

NextFind == FindTxt

SpecFind == InitFind /\ [][NextFind]_vars

(***************************************************************************)
(* One _perform_cli_commands call on a constructed driver, for every batch *)
(* of up to MaxBatch commands.                                             *)
(***************************************************************************)
InitShell ==
    /\ conn = "None"
    /\ fmt = "None"
    /\ locked = FALSE
    /\ lock_disable = FALSE
    /\ session_config_lock = FALSE
    /\ remoteLock = "free"
    /\ last = Constructed(remoteLock)
    /\ trace = <<>>
    /\ runOpen = TRUE
    /\ runLen = 0
    /\ runLockReq = 0
    /\ runLockFails = 0
    /\ runStartLocked = FALSE
    /\ ft = NoFindTxt
    /\ \E commands \in Batches, unread \in {<<>>, Prompt}, s \in Constructions :
           sh = ShellCall(commands, unread, s)

NextShell ==
    \/ ShellConnect
    \/ ShellSend
    \/ DeviceRespond
    \/ ShellRecv

SpecShell == InitShell /\ [][NextShell]_vars

\* the same call when nothing stops for ever: the driver's thread runs (it
\* connects, writes, and reads what has arrived), the device answers every
\* complete line it was sent, and the channel delivers the answers
SpecShellFair ==
    /\ SpecShell
    /\ WF_vars(ShellConnect)
    /\ WF_vars(ShellSend)
    /\ WF_vars(ShellRecv)
    /\ WF_vars(DeviceRespond)

(***************************************************************************)
(* Properties of the lock discipline.                                      *)
(***************************************************************************)
StructuredLoad == IsLoad(last.name) /\ fmt = "xml"

TextLoad == IsLoad(last.name) /\ fmt = "text"

\* C1, as stated: with locking enabled, a run of N >= 1 consecutive structured
\* loads since the last commit_config / discard_config has sent exactly one
\* lock() request.
C1_ExactlyOneLockRequest ==
    (LockingOn /\ runOpen /\ runLen >= 1) => runLockReq = 1

\* C1, amended: a structured load sends lock() exactly when the lock is not
\* believed held at its entry; so a run that starts with the lock believed
\* held sends none, a run that starts without it and whose lock() requests
\* all succeed sends exactly one, and every lock() request but the last
\* one of a run is one that raised.
C1_LockRequestedOnlyWhileNotHeld ==
    (LockingOn /\ runOpen /\ runLen >= 1) =>
        /\ StructuredLoad
        /\ CountLock(trace) = (IF last.pre_locked THEN 0 ELSE 1)
        /\ runStartLocked => runLockReq = 0
        /\ (~runStartLocked /\ runLockFails = 0) => runLockReq = 1
        /\ runLockReq <= runLockFails + 1

\* two consecutive structured loads, the second made with the lock believed
\* held, have sent one lock() request
C1_Witness ==
    /\ LockingOn
    /\ runOpen
    /\ runLen = 2
    /\ runLockReq = 1
    /\ runLockFails = 0
    /\ last.pre_locked
    /\ last.exc = NoExc

\* C2: self.locked is true exactly when this session holds the device's lock.
C2_FlagTracksRemoteLock == locked <=> (remoteLock = "self")

\* C3: with locking enabled, when commit_config or discard_config returns
\* normally the session no longer holds the device's lock and self.locked is
\* false.
C3_ReleasedAfterCommitOrDiscard ==
    (LockingOn /\ last.name \in {"commit_config", "discard_config"} /\ last.exc = NoExc) =>
        (~locked /\ remoteLock # "self")

(***************************************************************************)
(* Properties of the loads.                                                *)
(***************************************************************************)
\* the first character of p that is not whitespace is "<"
FirstNonWhitespaceIsLt(p) ==
    \E i \in 1..Len(p) : p[i] = "<" /\ \A j \in 1..(i - 1) : p[j] \in Whitespace

\* the lines of p: the pieces between its newlines, in order
NewlinesOf(p) == {i \in 1..Len(p) : p[i] = "\n"}

LinesOf(p) ==
    LET nl == NewlinesOf(p)
        n == Cardinality(nl)
        \* the position of the k-th newline; 0 before the first, Len(p)+1 after the last
        pos(k) == IF k = 0 THEN 0
                  ELSE IF k = n + 1 THEN Len(p) + 1
                  ELSE CHOOSE i \in nl : Cardinality({j \in nl : j < i}) = k - 1
    IN  [k \in 1..(n + 1) |-> SubSeq(p, pos(k - 1) + 1, pos(k) - 1)]

\* C4: a load classifies its payload as xml exactly when the payload's first
\* non-whitespace character is "<", as text otherwise (the empty and the
\* all-whitespace payload included), records that format in self.fmt and uses
\* that transport only: NETCONF requests for xml, one shell batch for text.
C4_FormatDetection ==
    IsLoad(last.name) =>
        IF FirstNonWhitespaceIsLt(last.config)
        THEN fmt = "xml" /\ \A i \in DOMAIN trace : trace[i].op # "cli"
        ELSE fmt = "text" /\ Len(trace) = 1 /\ trace[1].op = "cli"

\* a payload with whitespace before its "<" was loaded over NETCONF
C4_Witness ==
    /\ IsLoad(last.name)
    /\ Len(last.config) >= 2
    /\ last.config[1] \in Whitespace
    /\ fmt = "xml"
    /\ Len(trace) >= 2
    /\ trace[Len(trace)].op = "validate"

MarkerLines(buff) ==
    SelectSeq(split(buff, NL), LAMBDA item : contains(item, MinorColon))

\* the messages of marker lines, joined: the third ": "-delimited field of each
RECURSIVE JoinedMessages(_)
JoinedMessages(rows) ==
    IF rows = <<>> THEN <<>>
    ELSE split(strip(Head(rows)), ColonSpace)[3] \o JoinedMessages(Tail(rows))

HasMessage(row) == Len(split(strip(row), ColonSpace)) >= 3

\* C6: on the text path, when the output of the batch has a marker line such
\* as "MINOR: 123: bad input", load_merge_candidate raises a
\* MergeConfigException whose message is the one extracted from the marker
\* line ("bad input").
C6_MergeFailureCarriesMessage ==
    (/\ last.name = "load_merge_candidate"
     /\ fmt = "text"
     /\ MarkerLines(last.buff) # <<>>
     /\ \A i \in DOMAIN MarkerLines(last.buff) : HasMessage(MarkerLines(last.buff)[i])) =>
        /\ last.exc.kind = "MergeConfigException"
        /\ last.exc.msg = JoinedMessages(MarkerLines(last.buff))

C8_MergeBatch ==
    (last.name = "load_merge_candidate" /\ fmt = "text") =>
        /\ trace = <<ReqCli(<<CmdEditConfigExclusive>> \o LinesOf(last.config))>>
        /\ Len(trace[1].cmds) = Len(LinesOf(last.config)) + 1

(***************************************************************************)
(* Properties of _find_txt.                                                *)
(***************************************************************************)
\* evaluating the path on the tree raises: the tree is no element, the
\* expression is malformed, or its prefix is not in the namespace map
EvaluationRaises(c) ==
    \/ c.xml_tree.kind # "element"
    \/ c.path.kind = "malformed"
    \/ c.path.prefix \notin c.namespaces

\* the child elements of the tree the path names
Named(c) ==
    SelectSeq(c.xml_tree.kids,
              LAMBDA k : c.path.prefix = "state_ns" /\ k.tag = c.path.tag)

\* the path evaluates without error to an empty list: it selects elements,
\* or their text, and nothing in the tree matches
MatchesNothing(c) ==
    /\ ~EvaluationRaises(c)
    /\ \/ c.path.kind = "elements" /\ Named(c) = <<>>
       \/ c.path.kind = "text" /\ \A i \in DOMAIN Named(c) : Named(c)[i].text = None

\* C9: _find_txt never propagates an exception; when evaluating the path
\* raises it returns str(default) and logs the error.
C9_FindTxtNeverRaises ==
    ft.called =>
        /\ ft.raised = "none"
        /\ EvaluationRaises(ft) => (ft.ret = pystr(ft.default) /\ ft.logged)

\* an unknown namespace prefix returned the default "N/A"
C9_Witness ==
    /\ ft.called
    /\ ft.xml_tree.kind = "element"
    /\ ft.path.kind = "elements"
    /\ ft.path.prefix \notin ft.namespaces
    /\ ft.ret = <<"N", "/", "A">>
    /\ ft.logged

\* C10: when the path evaluates without error and matches nothing, _find_txt
\* returns the caller's default, whatever the default is.
C10_NoMatchReturnsDefault ==
    (ft.called /\ MatchesNothing(ft)) => ft.ret = pystr(ft.default)

\* the matches of a path that selects nodes or their text, in document order:
\* the named child elements, or the text of those that have one
MatchesOf(c) ==
    IF c.path.kind = "elements" THEN Named(c)
    ELSE SelectSeq(Named(c), LAMBDA k : k.text # None)

\* C11: when the path evaluates to a list with at least one match, _find_txt
\* returns what the first match gives, whatever the default and the later
\* matches are: for an element its text stripped of leading and trailing
\* whitespace, or "" when it has no text; for a string value (the result of
\* text()) that value itself.
C11_FirstMatchOnly ==
    (/\ ft.called
     /\ ~EvaluationRaises(ft)
     /\ ft.path.kind \in {"elements", "text"}
     /\ MatchesOf(ft) # <<>>) =>
        LET first == MatchesOf(ft)[1]
        IN  /\ ft.raised = "none"
            /\ ft.ret = IF ft.path.kind = "text" THEN first.text
                        ELSE IF first.text = None THEN <<>>
                        ELSE strip(first.text)

\* two elements match, " v " before "w", and the default is "N/A": "v" is returned
C11_Witness ==
    /\ ft.called
    /\ ft.path.kind = "elements"
    /\ ~EvaluationRaises(ft)
    /\ Len(Named(ft)) = 2
    /\ Named(ft)[1].text = <<" ", "v", " ">>
    /\ Named(ft)[2].text = <<"w">>
    /\ ft.default = StrVal(<<"N", "/", "A">>)
    /\ ft.ret = <<"v">>

(***************************************************************************)
(* Properties of rollback, commit_config and discard_config.               *)
(***************************************************************************)
\* the output lines with the marker "MINOR: " that are not the benign
\* "MINOR: CLI #2069"
ErrorLines(buff) ==
    SelectSeq(split(buff, NL),
              LAMBDA item : contains(item, MinorColon) /\ ~contains(item, BenignMarker))

\* the message of a marker line: its third ": "-delimited field
MessageOf(row) == split(strip(row), ColonSpace)[3]

\* C12: rollback runs the batch quit-config, configure exclusive, rollback 1,
\* commit, exit; when the output has no "MINOR: " line but benign ones it
\* returns nothing, otherwise the message of the first other "MINOR: " line
\* ("bad input" for "MINOR: 123: bad input").
C12_RollbackClassifies ==
    last.name = "rollback" =>
        /\ trace = <<ReqCli(<<CmdQuitConfig, CmdConfigureExclusive, CmdRollback1,
                              CmdCommit, CmdExit>>)>>
        /\ last.exc = NoExc
        /\ IF ErrorLines(last.buff) = <<>> THEN last.ret = None
           ELSE HasMessage(ErrorLines(last.buff)[1]) =>
                    last.ret = MessageOf(ErrorLines(last.buff)[1])

\* C17: with active format text, commit_config runs exactly the shell batch
\* "commit" and returns normally whatever the device prints, lines with the
\* marker "MINOR: " included: it prints the messages it finds and raises
\* nothing.
C17_TextCommitNeverRaises ==
    (last.name = "commit_config" /\ last.pre_fmt = "text") =>
        /\ trace = <<ReqCli(<<CmdCommit>>)>>
        /\ last.exc = NoExc
        /\ (\A i \in DOMAIN MarkerLines(last.buff) : HasMessage(MarkerLines(last.buff)[i])) =>
               last.printed = JoinedMessages(MarkerLines(last.buff))

\* discard_config was called with an active format, on an established
\* session when the format is xml
DiscardCalled ==
    /\ last.name = "discard_config"
    /\ \/ last.pre_fmt = "text"
       \/ last.pre_fmt = "xml" /\ conn = "session"

\* the discard of the active format: discard_changes() for xml, the shell
\* batch "discard" for text
DiscardRequest ==
    IF last.pre_fmt = "xml" THEN ReqDiscardChanges ELSE ReqCli(<<CmdDiscard>>)

\* the unlock() that follows it: sent exactly when the lock is believed held
\* and locking is enabled
UnlockAfterDiscard == IF last.pre_locked /\ LockingOn THEN <<ReqUnlock>> ELSE <<>>

\* C18, as stated: discard_config sends the discard of the active format,
\* once and on that surface only, and after it unlock() if and only if the
\* lock is believed held and locking is enabled.
C18_DiscardThenUnlock ==
    DiscardCalled => trace = <<DiscardRequest>> \o UnlockAfterDiscard

\* C18, amended: so it does when the discard succeeds; when discard_changes()
\* is rejected the call raises there and sends no unlock(), and self.locked
\* keeps its value.
C18_DiscardThenUnlockUnlessRejected ==
    DiscardCalled =>
        IF last.failedOp = "discard_changes"
        THEN /\ trace = <<DiscardRequest>>
             /\ last.exc.kind = "RPCError"
             /\ locked = last.pre_locked
        ELSE trace = <<DiscardRequest>> \o UnlockAfterDiscard

\* a structured discard with the lock believed held: discard_changes(), then
\* unlock()
C18_Witness ==
    /\ last.name = "discard_config"
    /\ last.pre_fmt = "xml"
    /\ last.pre_locked
    /\ LockingOn
    /\ last.exc = NoExc
    /\ trace = <<ReqDiscardChanges, ReqUnlock>>
    /\ ~locked

\* a request that activates the candidate configuration: commit() on the
\* session, or a shell batch with the command "commit"
Activates(req) ==
    \/ req.op = "commit"
    \/ req.op = "cli" /\ \E j \in DOMAIN req.cmds : req.cmds[j] = CmdCommit

\* C19: in every call sequence, a load sends no commit() and no shell command
\* "commit" of its own, whether it succeeds or fails; the only calls that
\* send one are commit_config and rollback.
C19_LoadsNeverCommit ==
    /\ IsLoad(last.name) =>
           \A i \in DOMAIN trace :
               /\ trace[i].op # "commit"
               /\ \A j \in DOMAIN trace[i].cmds :
                      trace[i].cmds[j] = CmdCommit => contains(last.config, CmdCommit)
    /\ (\E i \in DOMAIN trace : Activates(trace[i])) =>
           last.name \in {"commit_config", "rollback"}

\* a structured load staged and validated its payload and returned
C19_Witness ==
    /\ IsLoad(last.name)
    /\ fmt = "xml"
    /\ last.exc = NoExc
    /\ Len(trace) >= 2
    /\ trace[Len(trace)] = ReqValidate

(***************************************************************************)
(* Properties of the failure kinds.                                        *)
(***************************************************************************)
\* C15: open() either establishes the session and returns, or raises a
\* ConnectionException and leaves the driver without a session; it never
\* returns normally with self.conn still None.
C15_OpenSignalsConnectionFailure ==
    last.name = "open" =>
        \/ conn = "session" /\ last.exc = NoExc
        \/ conn = "None" /\ last.exc.kind = "ConnectionException"

\* C16: when the device rejects the lock() of a structured load, the load
\* raises SessionLockedException, self.locked stays false and the load sends
\* neither edit_config nor validate.
C16_LockRejected ==
    (StructuredLoad /\ last.failedOp = "lock" /\ last.failedHow = "rejected") =>
        /\ last.exc.kind = "SessionLockedException"
        /\ ~locked
        /\ trace = <<ReqLock>>

\* C20: a load whose edit_config() or validate() is rejected, or whose shell
\* output has a line with the marker "MINOR: ", raises the exception of its
\* operation: MergeConfigException from load_merge_candidate,
\* ReplaceConfigException from load_replace_candidate.
C20_ValidationFailureKind ==
    (/\ IsLoad(last.name)
     /\ \/ fmt = "xml" /\ last.failedOp \in {"edit_config", "validate"}
        \/ fmt = "text" /\ MarkerLines(last.buff) # <<>>) =>
        last.exc.kind = IF last.name = "load_merge_candidate"
                        THEN "MergeConfigException"
                        ELSE "ReplaceConfigException"

(***************************************************************************)
(* Properties of compare_config.                                           *)
(***************************************************************************)
\* the echo of a command of the batch: the command on a line of its own, or
\* after the prompt
IsEcho(item) ==
    \E c \in {CmdEnvironmentMoreFalse, CmdCompare} : item = c \/ item = Prompt \o c

\* the lines of the output that are neither a command echo, nor a prompt or
\* header line, nor a line with the placeholder "[]", nor blank
DiffText(buff) ==
    SelectSeq(split(buff, NL),
              LAMBDA item : /\ ~IsEcho(item)
                            /\ ~cmd_line_pattern_search(item)
                            /\ ~contains(item, <<"[", "]">>)
                            /\ strip(item) # <<>>)

\* each line without its trailing whitespace, and without its leading
\* whitespace when it contains "configure"
Trimmed(rows) ==
    [i \in DOMAIN rows |->
        IF contains(rows[i], Configure) THEN strip(rows[i]) ELSE rstrip(rows[i])]

CompareWithoutError ==
    /\ last.name = "compare_config"
    /\ last.pre_fmt = "text"
    /\ MarkerLines(last.buff) = <<>>

CommandLines(commands) ==
    UNION {{split(commands[k], NL)[i] : i \in DOMAIN split(commands[k], NL)} :
              k \in DOMAIN commands}

\* C14: the string _perform_cli_commands returns for a batch contains the
\* echo of every command of the batch and ends with the prompt "# ".
C14_ReturnsEchoesAndPrompt ==
    sh.pc = "done" =>
        /\ \A c \in CommandLines(sh.commands) : contains(sh.buff, c)
        /\ endswith(sh.buff, HashSpace)

\* C21: every command string that _perform_cli_commands writes to the shell
\* channel ends with a newline, for every command of every batch, a command
\* with a newline inside and none at its end included.
C21_EveryWriteEndsWithNewline ==
    \A i \in DOMAIN sh.written : endswith(sh.written[i], NL)

\* the writes of the call so far are the first commands of the batch, one
\* write each, in the order of the list
WrittenInListOrder ==
    /\ Len(sh.written) <= Len(sh.commands)
    /\ \A i \in DOMAIN sh.written : sh.written[i] = Written(sh.commands[i])
    /\ sh.pc = "recv" => Len(sh.written) = sh.k
    /\ sh.pc = "send" => Len(sh.written) = sh.k - 1
    /\ sh.pc = "done" => Len(sh.written) = Len(sh.commands)

\* C22: within one _perform_cli_commands call the commands of the batch are
\* written once each in list order, every command but the first is written
\* only after a read made since the previous write left the buffer with the
\* tail "# ", and the buffer (the returned string, at the end) is what the
\* reads of the call took from the channel, chunk after chunk in arrival
\* order.
C22_OneCommandInFlight ==
    /\ WrittenInListOrder
    /\ \A i \in DOMAIN sh.prompt_before_write : i > 1 => sh.prompt_before_write[i]
    /\ sh.buff \o sh.wire = sh.delivered

\* a batch of two commands has returned after at least three reads' worth of
\* data: the answer to each command and the prompt the shell printed first
C22_Witness ==
    /\ sh.pc = "done"
    /\ Len(sh.commands) = 2
    /\ Len(sh.written) = 2
    /\ sh.prompt_before_write = <<FALSE, TRUE>>
    /\ sh.wire = <<>>
    /\ sh.input = <<>>
    /\ sh.buff = sh.delivered
    /\ Len(sh.buff) > 2 * Len(Prompt)

(***************************************************************************)
(* Properties of the surfaces the calls act on.                            *)
(***************************************************************************)
\* C23: compare_config runs the shell batch "environment more false",
\* "compare" on every call, whatever the active format is (text, xml or
\* none).
C23_CompareAlwaysRunsBatch ==
    last.name = "compare_config" =>
        trace = <<ReqCli(<<CmdEnvironmentMoreFalse, CmdCompare>>)>>

\* the load raised its own failure
LoadFailureRaised ==
    \/ last.name = "load_merge_candidate" /\ last.exc.kind = "MergeConfigException"
    \/ last.name = "load_replace_candidate" /\ last.exc.kind = "ReplaceConfigException"

\* C24: on the text path load_merge_candidate and load_replace_candidate
\* classify the output of their batch alike: the load raises its failure if
\* and only if a line of the output contains "MINOR: ", and returns normally
\* when no line does.
C24_LoadsClassifyAlike ==
    TextLoad =>
        /\ LoadFailureRaised <=> MarkerLines(last.buff) # <<>>
        /\ MarkerLines(last.buff) = <<>> => last.exc = NoExc

\* the call has connected and is about to write its first command
BeforeFirstWrite == sh.pc = "send" /\ sh.written = <<>>

\* C25: every write of _perform_cli_commands goes to an existing shell
\* channel of a live connection: a session without an SSH connection, or with
\* one whose transport is inactive, gets a new connection and a new shell
\* before the first write, and otherwise the connection and the channel it
\* has are used as they are; so it is for every construction, one with an
\* ssh_conn and no ssh_channel included.
C25_WritesGoToLiveChannel ==
    /\ sh.pc \in {"send", "recv", "done", "raised"} =>
           /\ sh.pc # "raised"
           /\ sh.ssh_channel # "None"
           /\ sh.conn_ssh # "None"
           /\ sh.transport = "active"
    /\ BeforeFirstWrite =>
           IF is_active(sh.entry)
           THEN sh.conn_ssh = sh.entry.conn_ssh /\ sh.ssh_channel = sh.entry.ssh_channel
           ELSE sh.conn_ssh = "created" /\ sh.ssh_channel = "created"

(***************************************************************************)
(* Properties of the lock across calls.                                    *)
(***************************************************************************)
\* C26: when locking is disabled by configuration (lock_disable or
\* config_lock), no call of a sequence of loads, commits, discards and
\* rollbacks sends lock() or unlock(), and self.locked is false in every
\* reachable state.
C26_NoLockingWhenDisabled ==
    ~LockingOn =>
        /\ ~locked
        /\ \A i \in DOMAIN trace : trace[i].op \notin {"lock", "unlock"}

\* with locking disabled, a structured load was committed: the commit sent
\* commit() and nothing else
C26_Witness ==
    /\ ~LockingOn
    /\ conn = "session"
    /\ last.name = "commit_config"
    /\ last.pre_fmt = "xml"
    /\ last.exc = NoExc
    /\ trace = <<ReqCommit>>
    /\ runLen = 0

\* a structured load sent lock(), was granted it, and failed later: at the
\* parse of the payload, at edit_config() or at validate()
FailedAfterAcquiring ==
    /\ StructuredLoad
    /\ trace # <<>>
    /\ trace[1] = ReqLock
    /\ last.exc # NoExc
    /\ \/ last.exc.kind = "XMLSyntaxError"
       \/ last.failedOp \in {"edit_config", "validate"}

\* C27: a structured load that fails after acquiring the lock does no
\* cleanup: it sends neither discard_changes() nor unlock(), so the lock is
\* held and self.locked is true when the failure reaches the caller; and a
\* lock that is held, or believed held, stays so through every call but
\* commit_config and discard_config.
C27_FailedLoadKeepsLock ==
    /\ FailedAfterAcquiring =>
           /\ \A i \in DOMAIN trace : trace[i].op \in {"lock", "edit_config", "validate"}
           /\ locked
           /\ remoteLock = "self"
    /\ (last.pre_locked /\ ~locked) => last.name \in {"commit_config", "discard_config"}
    /\ (last.pre_remote = "self" /\ remoteLock # "self") =>
           last.name \in {"commit_config", "discard_config"}

\* validate() rejected the payload of a load that had acquired the lock
C27_Witness ==
    /\ FailedAfterAcquiring
    /\ ~last.pre_locked
    /\ last.failedOp = "validate"
    /\ trace = <<ReqLock, ReqEditConfig("merge"), ReqValidate>>
    /\ locked
    /\ remoteLock = "self"

(***************************************************************************)
(* Termination of the framing loop.                                        *)
(***************************************************************************)
\* the call is over: it returned its buffer, or raised
ShellCallOver == sh.pc \in {"done", "raised"}

\* C28: for a finite batch, when the channel delivers for every written
\* command data after which the buffer ends with "# ", the call
\* _perform_cli_commands eventually returns.
C28_FramingLoopTerminates == <>ShellCallOver

\* a batch of two commands returned everything the device sent
C28_Witness ==
    /\ sh.pc = "done"
    /\ sh.commands = <<<<"s", "h", "o", "w">>, <<"i", "n", "f", "o">>>>
    /\ sh.k = 2
    /\ endswith(sh.buff, HashSpace)
    /\ sh.buff = sh.delivered

(***************************************************************************)
(* Properties of commit_config and of the active format.                   *)
(***************************************************************************)
\* commit_config was called, on an established session when the format is
\* xml
CommitCalled ==
    /\ last.name = "commit_config"
    /\ last.pre_fmt = "xml" => conn = "session"

\* the unlock() that follows a structured commit: sent exactly when the lock
\* is believed held and locking is enabled
UnlockAfterCommit == IF last.pre_locked /\ LockingOn THEN <<ReqUnlock>> ELSE <<>>

\* C29, as stated: commit_config acts on the surface of the active format
\* only: for text it sends the shell batch "commit", no commit() and no
\* unlock(); for xml one commit(), then unlock() if the lock is believed held
\* and locking is enabled, and no shell command; with no active format it
\* sends nothing and returns normally.
C29_CommitOnActiveSurface ==
    CommitCalled =>
        CASE last.pre_fmt = "text" -> trace = <<ReqCli(<<CmdCommit>>)>>
          [] last.pre_fmt = "xml" -> trace = <<ReqCommit>> \o UnlockAfterCommit
          [] OTHER -> trace = <<>> /\ last.exc = NoExc

\* C29, amended: so it does when commit() succeeds; when commit() is rejected
\* the call raises there and sends no unlock(), and self.locked keeps its
\* value.
C29_CommitOnActiveSurfaceUnlessRejected ==
    CommitCalled =>
        CASE last.pre_fmt = "text" -> trace = <<ReqCli(<<CmdCommit>>)>>
          [] last.pre_fmt = "xml" ->
                 IF last.failedOp = "commit"
                 THEN /\ trace = <<ReqCommit>>
                      /\ last.exc.kind = "RPCError"
                      /\ locked = last.pre_locked
                 ELSE trace = <<ReqCommit>> \o UnlockAfterCommit
          [] OTHER -> trace = <<>> /\ last.exc = NoExc

\* a structured commit with the lock believed held: commit(), then unlock()
C29_Witness ==
    /\ last.name = "commit_config"
    /\ last.pre_fmt = "xml"
    /\ last.pre_locked
    /\ LockingOn
    /\ last.exc = NoExc
    /\ trace = <<ReqCommit, ReqUnlock>>
    /\ ~locked

\* the format of a payload: xml when its first non-whitespace character is
\* "<", text otherwise
DetectedFormat(p) == IF FirstNonWhitespaceIsLt(p) THEN "xml" ELSE "text"

\* C30: the active format is changed by load_merge_candidate and
\* load_replace_candidate only, which set it to the format detected in their
\* payload before they contact the device, so that it is set when the load
\* fails too; commit_config, discard_config, rollback and compare_config
\* leave it as it was, and rollback and compare_config leave self.locked as
\* it was too.
C30_FormatChangedByLoadsOnly ==
    /\ last.name = "__init__" => fmt = "None"
    /\ IsLoad(last.name) => fmt = DetectedFormat(last.config)
    /\ last.name \in {"open", "commit_config", "discard_config", "rollback",
                      "compare_config"} => fmt = last.pre_fmt
    /\ last.name \in {"rollback", "compare_config"} => locked = last.pre_locked

\* after a text load, a structured load was refused the lock: it sent nothing
\* else, and the active format is xml
C30_Witness ==
    /\ IsLoad(last.name)
    /\ last.pre_fmt = "text"
    /\ last.failedOp = "lock"
    /\ trace = <<ReqLock>>
    /\ ~locked
    /\ fmt = "xml"

====
